---- MODULE Spec2Model ----
(***************************************************************************)
(* Validation rule engine of the Excel validation dashboard (src/app.py). *)
(*                                                                         *)
(* A cell is a sequence of tokens.  An input cell is a sequence of        *)
(* one-character tokens over a small alphabet; a validation message and   *)
(* the separator " | " written by append_message are single tokens (they  *)
(* contain no digit-only text, no "." and no leading or trailing blank,   *)
(* so every parser below treats them as non-numeric characters, and       *)
(* str.lower leaves them as they are: no comparison of the code can match *)
(* them).  The float NaN that pandas stores for a blank spreadsheet cell  *)
(* (read_excel(dtype=str)) is the distinguished value NaNValue.            *)
(***************************************************************************)
EXTENDS Integers, Sequences, FiniteSets, TLC

\* ------------------------------------------------------------------
\* Bounds of the model
\* ------------------------------------------------------------------
NumRows == 2

\* ------------------------------------------------------------------
\* Configuration (src/app.py 15-58)
\* ------------------------------------------------------------------
EXPECTED_COLUMNS ==
  << "macroid", "asset_type", "asset_name", "final_value", "asset_usage_id",
     "value_base", "inspection_date", "production_capacity",
     "production_capacity_measuring_unit", "owner_name", "product_type",
     "market_approach", "market_approach_value", "cost_approach",
     "cost_approach_value", "country", "region", "city" >>

MANDATORY_FIELDS ==
  << "asset_type", "asset_name", "asset_usage_id", "value_base",
     "inspection_date", "final_value", "production_capacity",
     "production_capacity_measuring_unit", "owner_name", "product_type",
     "market_approach", "market_approach_value", "country", "region", "city" >>

ASSET_USAGE_MIN == 38
ASSET_USAGE_MAX == 56
VALUE_BASE_MIN == 1
VALUE_BASE_MAX == 9
MARKET_APPROACH_ALLOWED == {0, 1, 2}

\* ------------------------------------------------------------------
\* Messages and summary labels (string literals of src/app.py)
\* ------------------------------------------------------------------
SEP == " | "
MSG_MANDATORY == "This mandatory field is empty"
MSG_FINAL_EMPTY == "final_value is mandatory and cannot be empty"
MSG_FINAL_INT == "Final value must be a non-decimal integer"
MSG_DATE == "Date must be in dd-mm-YYYY format"
MSG_USAGE == "asset_usage_id must be in [38-56]"
MSG_VALUE_BASE == "value_base must be in [1-9]"
MSG_APPROACH == "market_approach must be 0, 1, or 2"
MSG_APPROACH_VALUE == "Must be a number when approach is 1 or 2"
MSG_CAPACITY == "Must be a non-negative number"

LBL_FINAL == "Final Value issues"
LBL_MANDATORY == "Missing mandatory values"
LBL_DATES == "Invalid dates"
LBL_AUTOFIXED == "Dates auto-formatted"
LBL_EXTRA == "Additional rule violations"
LINE_DATE_COLUMN_MISSING == "Column 'inspection_date' is missing"

\* ------------------------------------------------------------------
\* Strings
\* ------------------------------------------------------------------
NaNValue == << "<float nan>" >>

DigitChars == << "0", "1", "2", "3", "4", "5", "6", "7", "8", "9" >>
Digits == { DigitChars[i] : i \in 1..10 }
DigitVal(c) == (CHOOSE i \in 1..10 : DigitChars[i] = c) - 1

\* str(value): a str is itself, the float NaN prints as "nan"
Str(v) == IF v = NaNValue THEN << "n", "a", "n" >> ELSE v

RECURSIVE LStrip(_)
LStrip(s) == IF s # << >> /\ Head(s) = " " THEN LStrip(Tail(s)) ELSE s

RECURSIVE RStrip(_)
RStrip(s) == IF s # << >> /\ s[Len(s)] = " "
             THEN RStrip(SubSeq(s, 1, Len(s) - 1)) ELSE s

\* str.strip()
Strip(s) == RStrip(LStrip(s))

LowerChar(c) == IF c = "N" THEN "n" ELSE IF c = "A" THEN "a" ELSE c

\* str.lower() over the alphabet of the model
Lower(s) == [i \in 1..Len(s) |-> LowerChar(s[i])]

\* str.endswith
EndsWith(s, suffix) ==
  /\ Len(s) >= Len(suffix)
  /\ SubSeq(s, Len(s) - Len(suffix) + 1, Len(s)) = suffix

\* "c in s"
Contains(s, c) == \E i \in 1..Len(s) : s[i] = c

IsDigits(s) == s # << >> /\ \A i \in 1..Len(s) : s[i] \in Digits

RECURSIVE DigitsValue(_)
DigitsValue(s) ==
  IF s = << >> THEN 0
  ELSE 10 * DigitsValue(SubSeq(s, 1, Len(s) - 1)) + DigitVal(s[Len(s)])

\* The text a cell shows: the concatenation of its tokens.
RECURSIVE Text(_)
Text(s) == IF s = << >> THEN "" ELSE Head(s) \o Text(Tail(s))

\* ------------------------------------------------------------------
\* Python builtins int(str) and float(str), int(float), float < 0
\* ------------------------------------------------------------------
Unsigned(s) == IF s # << >> /\ Head(s) \in {"-", "+"} THEN Tail(s) ELSE s
IsNegative(s) == s # << >> /\ Head(s) = "-"

\* int(s): surrounding blanks ignored, optional sign, decimal digits
PyInt(s) ==
  LET t == Strip(s)
      u == Unsigned(t)
  IN IF IsDigits(u)
     THEN [ok |-> TRUE,
           val |-> IF IsNegative(t) THEN 0 - DigitsValue(u) ELSE DigitsValue(u)]
     ELSE [ok |-> FALSE, val |-> 0]

DotIndex(u) == IF Contains(u, ".") THEN CHOOSE i \in 1..Len(u) : u[i] = "." ELSE 0

\* float(s): surrounding blanks ignored, optional sign, then "nan", "inf" or
\* a decimal numeral with at least one digit.  A float is kept as its kind,
\* its sign, its integer part and whether its fraction is non-zero.
PyFloat(s) ==
  LET t == Strip(s)
      u == Unsigned(t)
      neg == IsNegative(t)
      d == DotIndex(u)
      ip == IF d = 0 THEN u ELSE SubSeq(u, 1, d - 1)
      fp == IF d = 0 THEN << >> ELSE SubSeq(u, d + 1, Len(u))
      bad == [ok |-> FALSE, kind |-> "none", neg |-> FALSE, int |-> 0, frac |-> FALSE]
  IN IF Lower(u) = << "n", "a", "n" >>
     THEN [ok |-> TRUE, kind |-> "nan", neg |-> neg, int |-> 0, frac |-> FALSE]
     ELSE IF Lower(u) = << "i", "n", "f" >>
     THEN [ok |-> TRUE, kind |-> "inf", neg |-> neg, int |-> 0, frac |-> FALSE]
     ELSE IF /\ ip \o fp # << >>
             /\ \A i \in 1..Len(ip) : ip[i] \in Digits
             /\ \A i \in 1..Len(fp) : fp[i] \in Digits
     THEN [ok |-> TRUE, kind |-> "finite", neg |-> neg,
           int |-> DigitsValue(ip),
           frac |-> \E i \in 1..Len(fp) : fp[i] # "0"]
     ELSE bad

\* int(f): truncation toward zero; raises on nan (ValueError) and on
\* infinity (OverflowError)
PyIntOfFloat(f) ==
  IF f.kind = "finite"
  THEN [raised |-> FALSE, val |-> IF f.neg THEN 0 - f.int ELSE f.int]
  ELSE [raised |-> TRUE, val |-> 0]

\* f < 0
FloatNegative(f) ==
  \/ f.kind = "inf" /\ f.neg
  \/ f.kind = "finite" /\ f.neg /\ (f.int > 0 \/ f.frac)

\* ------------------------------------------------------------------
\* Value coercion (src/app.py 69-125)
\* ------------------------------------------------------------------
is_empty(value) ==
  IF value = NaNValue THEN TRUE
  ELSE LET s == Strip(Str(value))
       IN IF s = << >> THEN TRUE
          ELSE IF Lower(s) = << "n", "/", "a" >> THEN FALSE
          ELSE IF s = << "0" >> THEN FALSE
          ELSE IF s # << >> THEN FALSE ELSE TRUE

\* to_int without the ".0" suffix rule of lines 96-97
to_int_keep_suffix(value) ==
  IF is_empty(value) THEN [ok |-> FALSE, val |-> 0]
  ELSE LET s == Strip(Str(value))
       IN IF Contains(s, ".") THEN [ok |-> FALSE, val |-> 0]
          ELSE PyInt(s)

to_int(value) ==
  IF is_empty(value) THEN [ok |-> FALSE, val |-> 0]
  ELSE LET s0 == Strip(Str(value))
           s == IF EndsWith(Lower(s0), << ".", "0" >>)
                THEN SubSeq(s0, 1, Len(s0) - 2) ELSE s0
       IN IF Contains(s, ".") THEN [ok |-> FALSE, val |-> 0]
          ELSE PyInt(s)

to_float(value) ==
  IF is_empty(value)
  THEN [ok |-> FALSE, kind |-> "none", neg |-> FALSE, int |-> 0, frac |-> FALSE]
  ELSE PyFloat(Strip(Str(value)))

\* ------------------------------------------------------------------
\* pd.to_datetime(s, dayfirst=True, errors="raise") and strftime("%d-%m-%Y"),
\* for the numeric forms d-m-YYYY, d/m/YYYY (day first, falling back to
\* month first when only that reading is a calendar date: dayfirst is a
\* preference, not strict) and the ISO form YYYY-mm-dd.  Any other text of
\* the model's alphabet raises.  Timestamps are limited to the years the
\* nanosecond clock can hold.
\* ------------------------------------------------------------------
TS_MIN_YEAR == 1678
TS_MAX_YEAR == 2261

RECURSIVE Split(_, _)
Split(s, sep) ==
  IF ~ Contains(s, sep) THEN << s >>
  ELSE LET i == CHOOSE k \in 1..Len(s) :
                  s[k] = sep /\ \A j \in 1..(k - 1) : s[j] # sep
       IN << SubSeq(s, 1, i - 1) >> \o Split(SubSeq(s, i + 1, Len(s)), sep)

IsLeap(y) == (y % 4 = 0 /\ y % 100 # 0) \/ y % 400 = 0

DaysInMonth(y, m) ==
  IF m = 2 THEN (IF IsLeap(y) THEN 29 ELSE 28)
  ELSE IF m \in {4, 6, 9, 11} THEN 30 ELSE 31

ValidDate(y, m, d) ==
  /\ y >= TS_MIN_YEAR /\ y <= TS_MAX_YEAR
  /\ m >= 1 /\ m <= 12
  /\ d >= 1 /\ d <= DaysInMonth(y, m)

NoDate == [ok |-> FALSE, y |-> 0, m |-> 0, d |-> 0]

to_datetime_dayfirst(s) ==
  LET sep == IF Contains(s, "-") THEN "-" ELSE "/"
      f == Split(s, sep)
  IN IF Len(f) # 3 \/ \E i \in 1..3 : ~ IsDigits(f[i]) THEN NoDate
     ELSE LET a == DigitsValue(f[1])
              b == DigitsValue(f[2])
              c == DigitsValue(f[3])
          IN IF Len(f[1]) = 4 /\ Len(f[2]) = 2 /\ Len(f[3]) = 2 /\ sep = "-"
             THEN (IF ValidDate(a, b, c)
                   THEN [ok |-> TRUE, y |-> a, m |-> b, d |-> c] ELSE NoDate)
             ELSE IF Len(f[1]) <= 2 /\ Len(f[2]) <= 2 /\ Len(f[3]) = 4
             THEN (IF ValidDate(c, b, a)
                   THEN [ok |-> TRUE, y |-> c, m |-> b, d |-> a]
                   ELSE IF ValidDate(c, a, b)
                   THEN [ok |-> TRUE, y |-> c, m |-> a, d |-> b]
                   ELSE NoDate)
             ELSE NoDate

\* "%02d" and "%04d"
Pad2(n) == << DigitChars[(n \div 10) + 1], DigitChars[(n % 10) + 1] >>
Pad4(n) == Pad2(n \div 100) \o Pad2(n % 100)

\* dt.strftime("%m-%d-%Y"): month and day exchanged
strftime_mdY(dt) == Pad2(dt.m) \o << "-" >> \o Pad2(dt.d) \o << "-" >> \o Pad4(dt.y)

\* dt.strftime("%d-%m-%Y")
strftime_dmY(dt) == Pad2(dt.d) \o << "-" >> \o Pad2(dt.m) \o << "-" >> \o Pad4(dt.y)

parse_and_format_date(value) ==
  IF is_empty(value) THEN [ok |-> FALSE, formatted |-> << >>]
  ELSE LET dt == to_datetime_dayfirst(Strip(Str(value)))
       IN IF dt.ok THEN [ok |-> TRUE, formatted |-> strftime_dmY(dt)]
          ELSE [ok |-> FALSE, formatted |-> << >>]

\* ------------------------------------------------------------------
\* append_message (src/app.py 331-335)
\* ------------------------------------------------------------------
\* append_message that replaces the cell by the new message
append_message_overwrite(existing, new_msg) == << new_msg >>

append_message(existing, new_msg) ==
  LET s == Strip(Str(existing))
  IN IF s = << >> \/ Lower(s) = << "n", "a", "n" >> THEN << new_msg >>
     ELSE s \o << SEP, new_msg >>

\* ------------------------------------------------------------------
\* Tables.  A DataFrame is its column set and, per row label, the cells of
\* those columns.  Row labels are the positions 0..NumRows-1.
\* ------------------------------------------------------------------
Rows == 0..(NumRows - 1)
ExpectedSet == { EXPECTED_COLUMNS[i] : i \in 1..Len(EXPECTED_COLUMNS) }
MandatorySet == { MANDATORY_FIELDS[i] : i \in 1..Len(MANDATORY_FIELDS) }

\* df.at[idx, col]
At(t, idx, col) == t.rows[idx][col]

\* df.at[idx, col] = v
SetAt(t, idx, col, v) == [t EXCEPT !.rows[idx][col] = v]

\* A row that passes every rule.
ValidCell(col) ==
  CASE col = "final_value" -> << "7" >>
    [] col = "asset_usage_id" -> << "3", "8" >>
    [] col = "value_base" -> << "1" >>
    [] col = "inspection_date" -> << "1", "5", "-", "0", "3", "-", "2", "0", "2", "4" >>
    [] col = "production_capacity" -> << "5" >>
    [] col = "market_approach" -> << "0" >>
    [] col = "market_approach_value" -> << "5" >>
    [] OTHER -> << "a" >>

\* The valid row with the cells of ov (a function from some columns to
\* contents) in place of the valid ones.
RowWith(ov) == [c \in ExpectedSet |-> IF c \in DOMAIN ov THEN ov[c] ELSE ValidCell(c)]

Approach(ma, mav) == ("market_approach" :> ma) @@ ("market_approach_value" :> mav)

\* The rows of the model's input tables: the valid row, blank rows, rows
\* with one defect, rows for the pairs of market_approach and
\* market_approach_value, and rows with several independent columns changed.
RowSamples ==
  { RowWith(ov) : ov \in
    { << >>,
      [c \in ExpectedSet |-> NaNValue],
      [c \in ExpectedSet |-> << " " >>],
      "owner_name" :> NaNValue,
      "final_value" :> << >>,
      "inspection_date" :> << "3", "1", "-", "0", "2", "-", "2", "0", "2", "4" >>,
      Approach(<< >>, << >>),
      Approach(NaNValue, << "5" >>) @@ ("asset_usage_id" :> << "5", "6", ".", "0" >>),
      Approach(<< "0" >>, NaNValue)
        @@ ("inspection_date" :> << "3", "/", "1", "5", "/", "2", "0", "2", "4" >>),
      Approach(<< "1" >>, << >>),
      Approach(<< "2" >>, NaNValue) @@ ("asset_usage_id" :> << "+", "4", "5" >>),
      Approach(<< "1" >>, << "a" >>) @@ ("asset_usage_id" :> << "a" >>),
      Approach(<< " ", "1" >>, << "1", ".", "5" >>),
      Approach(<< "1", ".", "5" >>, << " " >>),
      Approach(<< "5" >>, << >>),
      Approach(<< "5" >>, << "5" >>) @@ ("asset_usage_id" :> << "3", "8", ".", "5" >>),
      Approach(<< "a" >>, << >>),
      Approach(<< "n", "a", "n" >>, << "5" >>),
      Approach(<< "i", "n", "f" >>, << >>),
      ("final_value" :> << "1", ".", "5" >>) @@ ("asset_usage_id" :> << "3", "7" >>)
        @@ ("value_base" :> << "0" >>) @@ ("production_capacity" :> << "-", "1" >>),
      ("final_value" :> << "7", ".", "0" >>) @@ ("asset_usage_id" :> << "5", "6" >>)
        @@ ("value_base" :> << "9" >>) @@ ("production_capacity" :> << "n", "a", "n" >>)
        @@ ("asset_type" :> << "N", "/", "A" >>)
        @@ ("inspection_date" :> << "2", "0", "2", "4", "-", "0", "3", "-", "1", "5" >>),
      ("final_value" :> << "a" >>) @@ ("asset_usage_id" :> << "5", "7" >>)
        @@ ("value_base" :> << "1", "0" >>) @@ ("production_capacity" :> << "a" >>)
        @@ ("inspection_date" :> << "5", "/", "3", "/", "2", "0", "2", "4" >>) } }

FullTables == { [cols |-> ExpectedSet, rows |-> f] : f \in [Rows -> RowSamples] }

DropColumn(t, col) ==
  [cols |-> t.cols \ {col},
   rows |-> [r \in Rows |-> [c \in t.cols \ {col} |-> t.rows[r][c]]]]

\* Tables that lack one expected column; their rows are valid or blank.
DropTables ==
  { DropColumn([cols |-> ExpectedSet, rows |-> f], col) :
      f \in [Rows -> { RowWith(<< >>), RowWith([c \in ExpectedSet |-> NaNValue]) }],
      col \in ExpectedSet }

InputTables == FullTables \cup DropTables

Profiles == { "final_value_only", "mandatory_only", "dates_only", "all" }

\* An approach code: None, or an integer.
ApproachNone == [none |-> TRUE, val |-> 0]
ApproachInt(n) == [none |-> FALSE, val |-> n]
NotDerived == [none |-> TRUE, val |-> 0 - 1]

\* ------------------------------------------------------------------
\* State
\* ------------------------------------------------------------------
VARIABLES
  input,          \* the DataFrame object the caller passed in
  work,           \* the DataFrame object made by the latest df.copy()
  df,             \* which object the local name df is bound to
  profile,        \* the profile that was called
  pc,             \* the rule group that runs next, "done" or "raised"
  highlights,     \* keys of the highlights dict: <<idx, col>>
  summary,        \* summary lines, in order
  extra_issues,   \* counter of validate_all's additional checks
  approachMand,   \* per row, the approach code validate_mandatory_only derived
  approachCross,  \* per row, the approach code the cross-field check derived
  recorded,       \* per flagged cell, the messages appended to it, in order
  first_out       \* the table an earlier call returned, NoTable before a rerun

vars == << input, work, df, profile, pc, highlights, summary, extra_issues,
           approachMand, approachCross, recorded, first_out >>

\* No earlier call.
NoTable == [cols |-> {}, rows |-> [r \in Rows |-> << >>]]

\* The messages recorded so far, with msg appended for the cells in cells.
Record(rec, cells, msg) ==
  [x \in DOMAIN rec \cup cells |->
     (IF x \in DOMAIN rec THEN rec[x] ELSE << >>)
     \o (IF x \in cells THEN << msg >> ELSE << >>)]

\* The object the name df refers to.
Deref(ref) == IF ref = "input" THEN input ELSE work

\* df.copy() left out: the name stays bound to the same object.
df_copy_alias(ref) == ref

\* df.copy(): a new object with the same contents; the result names it.
df_copy(ref) == "work"

\* f"{label}: {count}" and a line without a count
CountLine(label, count) == [label |-> label, counted |-> TRUE, count |-> count]
TextLine(text) == [label |-> text, counted |-> FALSE, count |-> 0]

\* ------------------------------------------------------------------
\* validate_final_value_only (src/app.py 137-163), the loop and its results
\* ------------------------------------------------------------------
final_value_message(val) ==
  IF is_empty(val) THEN MSG_FINAL_EMPTY
  ELSE IF ~ to_int(val).ok THEN MSG_FINAL_INT
  ELSE ""

final_value_rule(t) ==
  IF "final_value" \in t.cols
  THEN LET bad == { r \in Rows : final_value_message(At(t, r, "final_value")) # "" }
       IN [df |-> [t EXCEPT !.rows =
                     [r \in Rows |->
                        IF r \in bad
                        THEN [t.rows[r] EXCEPT !["final_value"] =
                                append_message(@, final_value_message(@))]
                        ELSE t.rows[r]]],
           hl |-> { << r, "final_value" >> : r \in bad },
           summary |-> << CountLine(LBL_FINAL, Cardinality(bad)) >>]
  ELSE [df |-> t, hl |-> {}, summary |-> << CountLine(LBL_FINAL, 0) >>]

\* ------------------------------------------------------------------
\* validate_mandatory_only (src/app.py 166-196)
\* ------------------------------------------------------------------
\* lines 184-188: the approach code, None when int(float(...)) raises
approach_in_mandatory(t, idx) ==
  LET approach_raw == IF "market_approach" \in t.cols
                      THEN At(t, idx, "market_approach") ELSE << >>
  IN IF is_empty(approach_raw) THEN ApproachInt(0)
     ELSE LET f == PyFloat(Strip(Str(approach_raw)))
          IN IF ~ f.ok \/ PyIntOfFloat(f).raised THEN ApproachNone
             ELSE ApproachInt(PyIntOfFloat(f).val)

\* lines 178-193 without the market_approach exemption of lines 180-181
mandatory_missing_no_exempt(t, idx, col) ==
  /\ is_empty(At(t, idx, col))
  /\ col = "market_approach_value" =>
       ~ (approach_in_mandatory(t, idx) \in {ApproachInt(0), ApproachNone})

\* lines 178-193: is the cell counted as a missing mandatory value
mandatory_missing(t, idx, col) ==
  /\ is_empty(At(t, idx, col))
  /\ col # "market_approach"
  /\ col = "market_approach_value" =>
       ~ (approach_in_mandatory(t, idx) \in {ApproachInt(0), ApproachNone})

\* The loop over one column of MANDATORY_FIELDS.
mandatory_column(acc, col) ==
  IF col \notin acc.df.cols THEN acc
  ELSE LET t == acc.df
           bad == { r \in Rows : mandatory_missing(t, r, col) }
       IN [df |-> [t EXCEPT !.rows =
                     [r \in Rows |->
                        IF r \in bad
                        THEN [t.rows[r] EXCEPT ![col] = append_message(@, MSG_MANDATORY)]
                        ELSE t.rows[r]]],
           hl |-> acc.hl \cup { << r, col >> : r \in bad },
           missing_count |-> acc.missing_count + Cardinality(bad)]

RECURSIVE mandatory_columns(_, _)
mandatory_columns(acc, i) ==
  IF i > Len(MANDATORY_FIELDS) THEN acc
  ELSE mandatory_columns(mandatory_column(acc, MANDATORY_FIELDS[i]), i + 1)

\* validate_mandatory_only without its summary.append (line 195)
mandatory_rule_no_summary(t) ==
  LET res == mandatory_columns([df |-> t, hl |-> {}, missing_count |-> 0], 1)
  IN [df |-> res.df, hl |-> res.hl, summary |-> << >>]

mandatory_rule(t) ==
  LET res == mandatory_columns([df |-> t, hl |-> {}, missing_count |-> 0], 1)
  IN [df |-> res.df, hl |-> res.hl,
      summary |-> << CountLine(LBL_MANDATORY, res.missing_count) >>]

\* The approach codes the mandatory rule derives: one for each empty
\* market_approach_value cell.
mandatory_approaches(t) ==
  [r \in Rows |->
     IF "market_approach_value" \in t.cols /\ is_empty(At(t, r, "market_approach_value"))
     THEN approach_in_mandatory(t, r) ELSE NotDerived]

\* ------------------------------------------------------------------
\* validate_dates_only (src/app.py 199-230)
\* ------------------------------------------------------------------
date_invalid(val) ==
  \/ is_empty(val)
  \/ ~ (parse_and_format_date(val).ok /\ parse_and_format_date(val).formatted # << >>)

dates_rule(t) ==
  IF "inspection_date" \in t.cols
  THEN LET bad == { r \in Rows : date_invalid(At(t, r, "inspection_date")) }
           auto_fixed == Cardinality(Rows \ bad)
       IN [df |-> [t EXCEPT !.rows =
                     [r \in Rows |->
                        [t.rows[r] EXCEPT !["inspection_date"] =
                           IF r \in bad THEN append_message(@, MSG_DATE)
                           ELSE parse_and_format_date(@).formatted]]],
           hl |-> { << r, "inspection_date" >> : r \in bad },
           summary |-> << CountLine(LBL_DATES, Cardinality(bad)) >> \o
                       IF auto_fixed # 0
                       THEN << CountLine(LBL_AUTOFIXED, auto_fixed) >> ELSE << >>]
  ELSE [df |-> t, hl |-> {},
        summary |-> << TextLine(LINE_DATE_COLUMN_MISSING), CountLine(LBL_DATES, 0) >>]

\* ------------------------------------------------------------------
\* validate_all, additional checks (src/app.py 257-322).  Each takes and
\* returns the locals df, highlights (hl) and extra_issues (extra).
\* ------------------------------------------------------------------
\* The column loop without extra_issues += 1
flag_rows_uncounted(loc, col, bad, msg) ==
  [df |-> [loc.df EXCEPT !.rows =
             [r \in Rows |->
                IF r \in bad
                THEN [loc.df.rows[r] EXCEPT ![col] = append_message(@, msg)]
                ELSE loc.df.rows[r]]],
   hl |-> loc.hl \cup { << r, col >> : r \in bad },
   extra |-> loc.extra,
   rec |-> Record(loc.rec, { << r, col >> : r \in bad }, msg)]

\* One column loop that flags the rows in bad with msg.
flag_rows(loc, col, bad, msg) ==
  [df |-> [loc.df EXCEPT !.rows =
             [r \in Rows |->
                IF r \in bad
                THEN [loc.df.rows[r] EXCEPT ![col] = append_message(@, msg)]
                ELSE loc.df.rows[r]]],
   hl |-> loc.hl \cup { << r, col >> : r \in bad },
   extra |-> loc.extra + Cardinality(bad),
   rec |-> Record(loc.rec, { << r, col >> : r \in bad }, msg)]

\* lines 265 and 276 with strict comparisons
out_of_range_strict(val, lo, hi) ==
  /\ ~ is_empty(val)
  /\ (~ to_int(val).ok \/ ~ (lo < to_int(val).val /\ to_int(val).val < hi))

\* lines 262-265 and 273-276
out_of_range(val, lo, hi) ==
  /\ ~ is_empty(val)
  /\ (~ to_int(val).ok \/ ~ (lo <= to_int(val).val /\ to_int(val).val <= hi))

asset_usage_id_check(loc) ==
  IF "asset_usage_id" \in loc.df.cols
  THEN flag_rows(loc, "asset_usage_id",
                 { r \in Rows : out_of_range(At(loc.df, r, "asset_usage_id"),
                                             ASSET_USAGE_MIN, ASSET_USAGE_MAX) },
                 MSG_USAGE)
  ELSE loc

value_base_check(loc) ==
  IF "value_base" \in loc.df.cols
  THEN flag_rows(loc, "value_base",
                 { r \in Rows : out_of_range(At(loc.df, r, "value_base"),
                                             VALUE_BASE_MIN, VALUE_BASE_MAX) },
                 MSG_VALUE_BASE)
  ELSE loc

\* lines 284-288: "skip", "ok", "flag", or "raise" when int(fval) raises
\* outside any try block
market_approach_verdict(val) ==
  IF is_empty(val) THEN "skip"
  ELSE LET f == to_float(val)
       IN IF ~ f.ok THEN "flag"
          ELSE IF PyIntOfFloat(f).raised THEN "raise"
          ELSE IF PyIntOfFloat(f).val \notin MARKET_APPROACH_ALLOWED THEN "flag"
          ELSE "ok"

\* lines 282-291: the rows are visited in order and the first raise ends
\* the loop, and the call
market_approach_check(loc) ==
  IF "market_approach" \in loc.df.cols
  THEN LET verdict == [r \in Rows |-> market_approach_verdict(At(loc.df, r, "market_approach"))]
           raising == { r \in Rows : verdict[r] = "raise" }
           stop == IF raising = {} THEN NumRows
                   ELSE CHOOSE r \in raising : \A q \in raising : r <= q
           res == flag_rows(loc, "market_approach",
                            { r \in Rows : r < stop /\ verdict[r] = "flag" },
                            MSG_APPROACH)
       IN [df |-> res.df, hl |-> res.hl, extra |-> res.extra, rec |-> res.rec,
           raised |-> raising # {}]
  ELSE [df |-> loc.df, hl |-> loc.hl, extra |-> loc.extra, rec |-> loc.rec,
        raised |-> FALSE]

\* lines 296-303: the approach code of the cross-field check
approach_in_cross(t, idx) ==
  LET approach_raw == IF "market_approach" \in t.cols
                      THEN At(t, idx, "market_approach") ELSE << >>
      approach_empty == is_empty(approach_raw)
  IN IF approach_empty THEN ApproachInt(0)
     ELSE LET f == PyFloat(Strip(Str(approach_raw)))
          IN IF ~ f.ok \/ PyIntOfFloat(f).raised THEN ApproachNone
             ELSE ApproachInt(PyIntOfFloat(f).val)

\* line 304 with the requirement for approach 1 only
market_approach_value_check_only_1(loc) ==
  IF "market_approach_value" \in loc.df.cols
  THEN flag_rows(loc, "market_approach_value",
                 { r \in Rows :
                     /\ approach_in_cross(loc.df, r) = ApproachInt(1)
                     /\ ~ to_float(At(loc.df, r, "market_approach_value")).ok },
                 MSG_APPROACH_VALUE)
  ELSE loc

market_approach_value_check(loc) ==
  IF "market_approach_value" \in loc.df.cols
  THEN flag_rows(loc, "market_approach_value",
                 { r \in Rows :
                     /\ approach_in_cross(loc.df, r) \in {ApproachInt(1), ApproachInt(2)}
                     /\ ~ to_float(At(loc.df, r, "market_approach_value")).ok },
                 MSG_APPROACH_VALUE)
  ELSE loc

cross_approaches(t) ==
  [r \in Rows |->
     IF "market_approach_value" \in t.cols THEN approach_in_cross(t, r) ELSE NotDerived]

production_capacity_check(loc) ==
  IF "production_capacity" \in loc.df.cols
  THEN flag_rows(loc, "production_capacity",
                 { r \in Rows :
                     LET val == At(loc.df, r, "production_capacity")
                     IN /\ ~ is_empty(val)
                        /\ (~ to_float(val).ok \/ FloatNegative(to_float(val))) },
                 MSG_CAPACITY)
  ELSE loc

\* ------------------------------------------------------------------
\* Initial state and actions
\* ------------------------------------------------------------------
Init ==
  /\ input \in InputTables
  /\ work = input
  /\ df = "input"
  /\ profile = "none"
  /\ pc = "idle"
  /\ highlights = {}
  /\ summary = << >>
  /\ extra_issues = 0
  /\ approachMand = [r \in Rows |-> NotDerived]
  /\ approachCross = [r \in Rows |-> NotDerived]
  /\ recorded = << >>
  /\ first_out = NoTable

\* The object named ref gets the contents t.
Store(ref, t) ==
  IF ref = "input" THEN input' = t /\ UNCHANGED work
  ELSE work' = t /\ UNCHANGED input

\* The body of a validate_*_only function: df = df.copy(), the rule, return.
RunOnCopy(result) ==
  /\ df' = df_copy(df)
  /\ Store(df', result.df)
  /\ highlights' = highlights \cup result.hl
  /\ summary' = summary \o result.summary

\* A step of validate_all on its local df.
RunInPlace(res) ==
  /\ Store(df, res.df)
  /\ highlights' = res.hl
  /\ extra_issues' = res.extra
  /\ recorded' = res.rec
  /\ UNCHANGED << df, profile, summary, approachMand, first_out >>

Locals == [df |-> Deref(df), hl |-> highlights, extra |-> extra_issues, rec |-> recorded]

\* The caller invokes a profile with its table; validate_all begins with
\* df = df.copy() and empty highlights and summary (lines 237-240).
Call(p) ==
  /\ pc = "idle"
  /\ profile' = p
  /\ IF p = "all"
     THEN /\ df' = df_copy(df)
          /\ Store(df', Deref(df))
          /\ pc' = "validate_mandatory_only"
     ELSE /\ UNCHANGED << input, work, df >>
          /\ pc' = CASE p = "final_value_only" -> "validate_final_value_only"
                     [] p = "mandatory_only" -> "validate_mandatory_only"
                     [] p = "dates_only" -> "validate_dates_only"
  /\ UNCHANGED << highlights, summary, extra_issues, approachMand, approachCross,
                  recorded, first_out >>

validate_mandatory_only ==
  /\ pc = "validate_mandatory_only"
  /\ RunOnCopy(mandatory_rule(Deref(df)))
  /\ recorded' = Record(recorded, mandatory_rule(Deref(df)).hl, MSG_MANDATORY)
  /\ approachMand' = mandatory_approaches(Deref(df))
  /\ pc' = IF profile = "all" THEN "validate_final_value_only" ELSE "done"
  /\ UNCHANGED << profile, extra_issues, approachCross, first_out >>

validate_final_value_only ==
  /\ pc = "validate_final_value_only"
  /\ RunOnCopy(final_value_rule(Deref(df)))
  /\ LET flagged == final_value_rule(Deref(df)).hl
         empty == { x \in flagged : is_empty(At(Deref(df), x[1], x[2])) }
     IN recorded' = Record(Record(recorded, empty, MSG_FINAL_EMPTY),
                           flagged \ empty, MSG_FINAL_INT)
  /\ pc' = IF profile = "all" THEN "validate_dates_only" ELSE "done"
  /\ UNCHANGED << profile, extra_issues, approachMand, approachCross, first_out >>

validate_dates_only ==
  /\ pc = "validate_dates_only"
  /\ RunOnCopy(dates_rule(Deref(df)))
  /\ recorded' = Record(recorded, dates_rule(Deref(df)).hl, MSG_DATE)
  /\ pc' = IF profile = "all" THEN "asset_usage_id" ELSE "done"
  /\ UNCHANGED << profile, extra_issues, approachMand, approachCross, first_out >>

check_asset_usage_id ==
  /\ pc = "asset_usage_id"
  /\ RunInPlace(asset_usage_id_check(Locals))
  /\ pc' = "value_base"
  /\ UNCHANGED approachCross

check_value_base ==
  /\ pc = "value_base"
  /\ RunInPlace(value_base_check(Locals))
  /\ pc' = "market_approach"
  /\ UNCHANGED approachCross

check_market_approach ==
  /\ pc = "market_approach"
  /\ RunInPlace(market_approach_check(Locals))
  /\ pc' = IF market_approach_check(Locals).raised THEN "raised"
           ELSE "market_approach_value"
  /\ UNCHANGED approachCross

check_market_approach_value ==
  /\ pc = "market_approach_value"
  /\ RunInPlace(market_approach_value_check(Locals))
  /\ approachCross' = cross_approaches(Deref(df))
  /\ pc' = "production_capacity"

\* the last check, the summary line of the additional checks and the return
check_production_capacity ==
  /\ pc = "production_capacity"
  /\ LET res == production_capacity_check(Locals)
     IN /\ Store(df, res.df)
        /\ highlights' = res.hl
        /\ extra_issues' = res.extra
        /\ recorded' = res.rec
        /\ summary' = summary \o << CountLine(LBL_EXTRA, res.extra) >>
  /\ pc' = "done"
  /\ UNCHANGED << df, profile, approachMand, approachCross, first_out >>

Next ==
  \/ \E p \in Profiles : Call(p)
  \/ validate_mandatory_only
  \/ validate_final_value_only
  \/ validate_dates_only
  \/ check_asset_usage_id
  \/ check_value_base
  \/ check_market_approach
  \/ check_market_approach_value
  \/ check_production_capacity

Spec == Init /\ [][Next]_vars

\* The caller runs dates_only once more, on the table the first dates_only
\* call returned.
Rerun ==
  /\ pc = "done"
  /\ profile = "dates_only"
  /\ first_out = NoTable
  /\ first_out' = Deref(df)
  /\ pc' = "validate_dates_only"
  /\ highlights' = {}
  /\ summary' = << >>
  /\ recorded' = << >>
  /\ UNCHANGED << input, work, df, profile, extra_issues, approachMand, approachCross >>

NextRerun == Next \/ Rerun

SpecRerun == Init /\ [][NextRerun]_vars

\* main, lines 573-575: the sum of the counts of the summary lines that have
\* a ":" and one of the four issue labels before it
RECURSIVE total_issues(_)
total_issues(lines) ==
  IF lines = << >> THEN 0
  ELSE (IF /\ Head(lines).counted
           /\ Head(lines).label \in {LBL_FINAL, LBL_MANDATORY, LBL_DATES, LBL_EXTRA}
        THEN Head(lines).count ELSE 0)
       + total_issues(Tail(lines))

\* ------------------------------------------------------------------
\* What a finished call returned
\* ------------------------------------------------------------------
Returned == pc = "done"
out_df == Deref(df)

\* ------------------------------------------------------------------
\* Claims
\* ------------------------------------------------------------------
ReturnedFrom(p) == Returned /\ profile = p
HasColumns(cs) == cs \subseteq input.cols
Flagged(r, c) == << r, c >> \in highlights
HasToken(cell, tok) == \E i \in 1..Len(cell) : cell[i] = tok

\* C1: under `all`, a row whose input final_value is empty ends with the
\* final_value cell "This mandatory field is empty | final_value is
\* mandatory and cannot be empty".
C1_FinalValueEmptyMerged ==
  (ReturnedFrom("all") /\ HasColumns({"final_value"})) =>
    \A r \in Rows :
      is_empty(At(input, r, "final_value")) =>
        Text(At(out_df, r, "final_value")) =
          "This mandatory field is empty | final_value is mandatory and cannot be empty"

\* C2: no profile raises, whatever text the cells hold.
C2_NeverRaises == pc # "raised"

\* C5: under `all`, an empty asset_usage_id, value_base or
\* production_capacity cell ends with the mandatory message alone.
C5_EmptySkippedByRangeRules ==
  ReturnedFrom("all") =>
    \A r \in Rows :
      \A c \in {"asset_usage_id", "value_base", "production_capacity"} \cap input.cols :
        is_empty(At(input, r, c)) => At(out_df, r, c) = << MSG_MANDATORY >>

\* C10: in an `all` run, the approach code the mandatory rule derived for a
\* row and the one the cross-field rule derived for it are the same.
C10_ApproachCodesAgree ==
  ReturnedFrom("all") =>
    \A r \in Rows :
      (approachMand[r] # NotDerived /\ approachCross[r] # NotDerived) =>
        approachMand[r] = approachCross[r]

\* The input market_approach of a row; a table without the column reads as
\* empty (lines 185 and 296).
InputApproach(r) ==
  IF "market_approach" \in input.cols THEN At(input, r, "market_approach") ELSE << >>

\* The text parses as a finite float; its truncation to an integer.
FiniteNumber(raw) == to_float(raw).ok /\ to_float(raw).kind = "finite"
Truncation(raw) == IF to_float(raw).neg THEN 0 - to_float(raw).int ELSE to_float(raw).int

\* The text parses as a float whose integer truncation is in S.
TruncatesInto(raw, S) == FiniteNumber(raw) /\ Truncation(raw) \in S

\* C3 as stated: under mandatory_only a cell is flagged with the mandatory
\* message exactly when it is empty, its column is an expected column other
\* than cost_approach and cost_approach_value, and it is not exempt
\* (market_approach always; market_approach_value when market_approach is
\* empty or parses to integer 0).
C3_MandatoryAllButCost ==
  ReturnedFrom("mandatory_only") =>
    \A r \in Rows : \A c \in input.cols :
      Flagged(r, c) <=>
        /\ c \notin {"cost_approach", "cost_approach_value"}
        /\ is_empty(At(input, r, c))
        /\ c # "market_approach"
        /\ c = "market_approach_value" =>
             ~ (is_empty(InputApproach(r)) \/ TruncatesInto(InputApproach(r), {0}))

\* C3 amended: the rule covers the expected columns other than macroid,
\* cost_approach and cost_approach_value; an empty cell of them is flagged
\* with "This mandatory field is empty" unless the column is market_approach,
\* or it is market_approach_value and the row's market_approach is absent,
\* empty, truncates to 0 or does not parse as a finite number.  No other cell
\* is flagged or changed.
C3_MandatoryFifteen ==
  ReturnedFrom("mandatory_only") =>
    \A r \in Rows : \A c \in input.cols :
      LET missing ==
            /\ c \notin {"macroid", "cost_approach", "cost_approach_value"}
            /\ is_empty(At(input, r, c))
            /\ c # "market_approach"
            /\ c = "market_approach_value" =>
                 ~ \/ is_empty(InputApproach(r))
                   \/ TruncatesInto(InputApproach(r), {0})
                   \/ ~ FiniteNumber(InputApproach(r))
      IN /\ Flagged(r, c) <=> missing
         /\ At(out_df, r, c) = IF missing THEN << MSG_MANDATORY >> ELSE At(input, r, c)

C3_Witness ==
  /\ ReturnedFrom("mandatory_only")
  /\ HasColumns(ExpectedSet)
  /\ \E r \in Rows : is_empty(At(input, r, "macroid")) /\ ~ Flagged(r, "macroid")
                     /\ Flagged(r, "city") /\ ~ Flagged(r, "cost_approach")
  /\ \E r \in Rows : /\ ~ is_empty(InputApproach(r)) /\ ~ to_float(InputApproach(r)).ok
                     /\ is_empty(At(input, r, "market_approach_value"))
                     /\ ~ Flagged(r, "market_approach_value")

\* C4: under `all`, a row with market_approach and market_approach_value
\* both empty has neither cell flagged nor changed; a row with
\* market_approach "1" or "2" and market_approach_value empty has
\* market_approach_value flagged with a message containing "Must be a number
\* when approach is 1 or 2".
C4_CrossFieldConsistency ==
  (ReturnedFrom("all") /\ HasColumns({"market_approach", "market_approach_value"})) =>
    \A r \in Rows :
      LET ma == At(input, r, "market_approach")
          mav == At(input, r, "market_approach_value")
      IN /\ (is_empty(ma) /\ is_empty(mav)) =>
              /\ ~ Flagged(r, "market_approach")
              /\ ~ Flagged(r, "market_approach_value")
              /\ At(out_df, r, "market_approach") = ma
              /\ At(out_df, r, "market_approach_value") = mav
         /\ (ma \in { << "1" >>, << "2" >> } /\ is_empty(mav)) =>
              /\ Flagged(r, "market_approach_value")
              /\ HasToken(At(out_df, r, "market_approach_value"), MSG_APPROACH_VALUE)

C4_Witness ==
  /\ ReturnedFrom("all")
  /\ HasColumns({"market_approach", "market_approach_value"})
  /\ \E r \in Rows : /\ is_empty(At(input, r, "market_approach"))
                     /\ is_empty(At(input, r, "market_approach_value"))
                     /\ ~ Flagged(r, "market_approach_value")
  /\ \E r \in Rows : /\ At(input, r, "market_approach") = << "2" >>
                     /\ is_empty(At(input, r, "market_approach_value"))
                     /\ HasToken(At(out_df, r, "market_approach_value"), MSG_APPROACH_VALUE)

\* The rule groups of `all`, each evaluated on the input table.
RuleViolated(r, c) ==
  LET v == At(input, r, c)
  IN \/ /\ c \in MandatorySet
        /\ is_empty(v)
        /\ c # "market_approach"
        /\ c = "market_approach_value" =>
             /\ ~ is_empty(InputApproach(r))
             /\ FiniteNumber(InputApproach(r))
             /\ Truncation(InputApproach(r)) # 0
     \/ c = "final_value" /\ ~ to_int(v).ok
     \/ c = "inspection_date" /\ ~ parse_and_format_date(v).ok
     \/ /\ c = "asset_usage_id" /\ ~ is_empty(v)
        /\ ~ (to_int(v).ok /\ to_int(v).val \in 38..56)
     \/ /\ c = "value_base" /\ ~ is_empty(v)
        /\ ~ (to_int(v).ok /\ to_int(v).val \in 1..9)
     \/ c = "market_approach" /\ ~ is_empty(v) /\ ~ TruncatesInto(v, {0, 1, 2})
     \/ /\ c = "market_approach_value"
        /\ ~ is_empty(InputApproach(r))
        /\ TruncatesInto(InputApproach(r), {1, 2})
        /\ ~ to_float(v).ok
     \/ /\ c = "production_capacity" /\ ~ is_empty(v)
        /\ ~ (to_float(v).ok /\ ~ FloatNegative(to_float(v)))

InputViolations == { x \in Rows \X input.cols : RuleViolated(x[1], x[2]) }

SummaryHas(line) == \E i \in 1..Len(summary) : summary[i] = line

\* C6: the highlight set `all` returns is exactly the set of cells that
\* violate some rule group evaluated on the input table; a table whose only
\* defects are an empty owner_name in one row and an unparseable
\* inspection_date in another yields exactly those two cells, "Missing
\* mandatory values: 1" and "Invalid dates: 1".
C6_HighlightsExact ==
  ReturnedFrom("all") =>
    /\ highlights = InputViolations
    /\ \A r1, r2 \in Rows :
         ( /\ r1 # r2
           /\ HasColumns(ExpectedSet)
           /\ is_empty(At(input, r1, "owner_name"))
           /\ ~ is_empty(At(input, r2, "inspection_date"))
           /\ InputViolations = { << r1, "owner_name" >>, << r2, "inspection_date" >> } ) =>
           /\ highlights = { << r1, "owner_name" >>, << r2, "inspection_date" >> }
           /\ SummaryHas(CountLine(LBL_MANDATORY, 1))
           /\ SummaryHas(CountLine(LBL_DATES, 1))

C6_Witness ==
  /\ ReturnedFrom("all")
  /\ HasColumns(ExpectedSet)
  /\ \E r1, r2 \in Rows :
       /\ r1 < r2
       /\ InputViolations = { << r1, "owner_name" >>, << r2, "inspection_date" >> }
       /\ ~ is_empty(At(input, r2, "inspection_date"))
       /\ highlights = { << r1, "owner_name" >>, << r2, "inspection_date" >> }

\* The labels of the summary, with whether each line carries a count.
SummaryShape == [i \in 1..Len(summary) |-> << summary[i].label, summary[i].counted >>]

\* The number of rule groups a profile executes.
GroupCount(p) == IF p = "all" THEN 8 ELSE 1

\* C7 as stated: the summary has one "<Label>: <count>" line per rule group
\* the profile executed, eight of them for `all`.
C7_OneLinePerRuleGroup ==
  Returned =>
    /\ Len(summary) = GroupCount(profile)
    /\ \A i \in 1..Len(summary) : summary[i].counted

\* The lines of the date rule group: a column-missing line when
\* inspection_date is absent, "Invalid dates", and "Dates auto-formatted"
\* when some input date parsed.
DateLinesShape ==
  (IF "inspection_date" \in input.cols THEN << >>
   ELSE << << LINE_DATE_COLUMN_MISSING, FALSE >> >>)
  \o << << LBL_DATES, TRUE >> >>
  \o (IF /\ "inspection_date" \in input.cols
         /\ \E r \in Rows : parse_and_format_date(At(input, r, "inspection_date")).ok
      THEN << << LBL_AUTOFIXED, TRUE >> >> ELSE << >>)

\* C7 amended: the summary lists the executed rule groups in execution
\* order, but the five additional checks of `all` share the single line
\* "Additional rule violations", and the date rule group contributes up to
\* three lines: final_value_only gives "Final Value issues"; mandatory_only
\* gives "Missing mandatory values"; dates_only gives the date lines; `all`
\* gives "Missing mandatory values", "Final Value issues", the date lines,
\* "Additional rule violations".
C7_SummaryLines ==
  Returned =>
    SummaryShape =
      CASE profile = "final_value_only" -> << << LBL_FINAL, TRUE >> >>
        [] profile = "mandatory_only" -> << << LBL_MANDATORY, TRUE >> >>
        [] profile = "dates_only" -> DateLinesShape
        [] profile = "all" ->
             << << LBL_MANDATORY, TRUE >>, << LBL_FINAL, TRUE >> >>
             \o DateLinesShape \o << << LBL_EXTRA, TRUE >> >>

C7_Witness ==
  /\ ReturnedFrom("all")
  /\ Len(summary) = 5
  /\ summary[4].label = LBL_AUTOFIXED
  /\ summary[5].label = LBL_EXTRA
  /\ highlights # {}

TextLines == { i \in 1..Len(summary) : ~ summary[i].counted }

\* C8: a profile that is a single rule group reports its absent target
\* column with one summary line (final_value_only without final_value,
\* dates_only without inspection_date); `all` adds no column-missing line.
C8_ColumnMissingLine ==
  Returned =>
    /\ (profile = "final_value_only" /\ "final_value" \notin input.cols) =>
         Cardinality(TextLines) = 1
    /\ (profile = "dates_only" /\ "inspection_date" \notin input.cols) =>
         Cardinality(TextLines) = 1
    /\ profile = "all" => TextLines = {}

\* C9: no step of any profile changes the table the caller passed in.
C9_InputUnchanged == [][input' = input]_vars

C9_Witness ==
  /\ Returned
  /\ highlights # {}
  /\ \E r \in Rows :
       /\ "inspection_date" \in input.cols
       /\ ~ Flagged(r, "inspection_date")
       /\ At(out_df, r, "inspection_date") # At(input, r, "inspection_date")
  /\ \E x \in highlights : At(out_df, x[1], x[2]) # At(input, x[1], x[2])

\* The stripped input text of a cell, nothing when it is empty or "nan".
OriginalText(r, c) ==
  LET t == Strip(Str(At(input, r, c)))
  IN IF t = << >> \/ Lower(t) = << "n", "a", "n" >> THEN << >> ELSE t

\* The messages joined by " | ".
RECURSIVE JoinMessages(_)
JoinMessages(msgs) ==
  IF Len(msgs) <= 1 THEN msgs
  ELSE << Head(msgs), SEP >> \o JoinMessages(Tail(msgs))

\* C11: at every point of a run, a cell that has messages recorded on it
\* holds its stripped input text (nothing when that was empty or "nan")
\* followed by all the messages recorded on it so far, in their order,
\* joined by " | "; so no later rule group, and no date auto-correction,
\* removes or overwrites a recorded message.
C11_AppendOnly ==
  \A x \in DOMAIN recorded :
    At(Deref(df), x[1], x[2]) =
      IF OriginalText(x[1], x[2]) = << >> THEN JoinMessages(recorded[x])
      ELSE OriginalText(x[1], x[2]) \o << SEP >> \o JoinMessages(recorded[x])

C11_Witness ==
  /\ ReturnedFrom("all")
  /\ \E x \in DOMAIN recorded :
       /\ x[2] = "inspection_date"
       /\ recorded[x] = << MSG_MANDATORY, MSG_DATE >>
  /\ \E x \in DOMAIN recorded :
       /\ OriginalText(x[1], x[2]) # << >>
       /\ Len(At(out_df, x[1], x[2])) > Len(OriginalText(x[1], x[2]))

\* The claim's reading of an integer: the trimmed text is decimal digits,
\* which may carry a sign, optionally followed by ".0".
PlainInteger(v) ==
  LET t == Strip(Str(v))
      body == IF EndsWith(t, << ".", "0" >>) THEN SubSeq(t, 1, Len(t) - 2) ELSE t
      digits == IF body # << >> /\ Head(body) \in {"+", "-"} THEN Tail(body) ELSE body
      sign == IF body # << >> /\ Head(body) = "-" THEN 0 - 1 ELSE 1
  IN [ok |-> IsDigits(digits),
      val |-> IF IsDigits(digits) THEN sign * DigitsValue(digits) ELSE 0]

C13_DatesOnlyIdempotent ==
  (ReturnedFrom("dates_only") /\ first_out # NoTable
     /\ HasColumns({"inspection_date"})) =>
    \A r \in Rows :
      parse_and_format_date(At(input, r, "inspection_date")).ok =>
        /\ At(out_df, r, "inspection_date") = At(first_out, r, "inspection_date")
        /\ ~ Flagged(r, "inspection_date")

C13_Witness ==
  /\ ReturnedFrom("dates_only")
  /\ first_out # NoTable
  /\ HasColumns({"inspection_date"})
  /\ \E r \in Rows :
       /\ At(first_out, r, "inspection_date") # At(input, r, "inspection_date")
       /\ At(out_df, r, "inspection_date") = At(first_out, r, "inspection_date")
       /\ ~ Flagged(r, "inspection_date")

\* The number of messages appended to cells during the run.
RECURSIVE CountMessages(_)
CountMessages(cells) ==
  IF cells = {} THEN 0
  ELSE LET x == CHOOSE y \in cells : TRUE
       IN Len(recorded[x]) + CountMessages(cells \ {x})

\* C14: the total the caller computes from the summary equals the number of
\* messages appended during the run, and it is 0 exactly when the highlight
\* set is empty.
C14_TotalIssuesMatch ==
  Returned =>
    /\ total_issues(summary) = CountMessages(DOMAIN recorded)
    /\ total_issues(summary) = 0 <=> highlights = {}

C14_Witness ==
  /\ ReturnedFrom("all")
  /\ total_issues(summary) > Cardinality(highlights)
  /\ extra_issues > 0
  /\ Len(summary) = 5

====
